---- MODULE Spec2Model ----
(***************************************************************************)
(* The retrieval-augmented answer pipeline of enhanced-rag-chain.js, the   *)
(* POST /ask route of rag-chat-app/api-server.js and the sendMessage       *)
(* handler of rag-chat-app/src/App.vue.                                    *)
(*                                                                         *)
(* JavaScript runs every handler to completion: one action below is the    *)
(* code that runs between two waits on the network (the vector search and  *)
(* the model generation).  PineconeStore.fromExistingIndex and             *)
(* prompt.invoke are awaited too, but they resolve without input or        *)
(* output, so no other handler runs before their continuation does.        *)
(* Texts are sequences of tokens, so that what a formatter writes can be   *)
(* compared with what it was given.  The demo loop that runs when          *)
(* enhanced-rag-chain.js is loaded is one more sequential caller of        *)
(* answerQuestionWithSources and has no action of its own.                 *)
(*                                                                         *)
(* Four specifications share the variables: Spec (the server), UiSpec (the *)
(* chat window), HistorySpec (addMessageToHistory called directly) and     *)
(* IngestSpec (the wiki ingestion script of unnamed/part_004).  The        *)
(* actions of one leave the variables of the others unchanged.             *)
(***************************************************************************)
EXTENDS Integers, Sequences, FiniteSets, TLC

(* ---------------------------------------------------------------------- *)
(* Bounds and input sets                                                   *)
(* ---------------------------------------------------------------------- *)

\* number of questions the server accepts in one behaviour
MaxAsked == 6

\* number of messages the chat window shows in one behaviour
MaxMessages == 5

\* number of direct addMessageToHistory calls in one behaviour
MaxAppended == 12

\* number of entries of the wiki directory
MaxFiles == 2

\* the requests that may be in progress together, in the order their slots are taken
ReqOrder == <<"r1", "r2">>
Reqs == {ReqOrder[i] : i \in 1..Len(ReqOrder)}
Sessions == {"s1", "s2"}
Undefined == "<undefined>"
Questions == {"q1"}
DontKnow == "I don't know."
Answers == {"a1", DontKnow}

\* a document of the index, and its score for the question
DocA == [metadata |-> [source |-> "a.md", title |-> "A"], pageContent |-> "ca"]
DocB == [metadata |-> [source |-> Undefined, title |-> "B"], pageContent |-> "cb"]
DocC == [metadata |-> [source |-> Undefined, title |-> Undefined], pageContent |-> "cc"]

\* what similaritySearchWithScore may answer: tuples of [document, score]
StoreResults ==
    { << <<DocA, 2>>, <<DocB, 1>> >>,
      << <<DocC, 0>>, <<DocC, 0>> >> }

(* ---------------------------------------------------------------------- *)
(* Program constants                                                       *)
(* ---------------------------------------------------------------------- *)

HistoryLimit == 10
DefaultK == 12
ApologyAnswer == "Sorry, I couldn't process your question due to an error."
AskFailedError == "Failed to process your question. Please try again later."
QuestionRequired == "Question is required"
NoPreviousConversation == "No previous conversation."
BATCH_SIZE == 100

VARIABLES
    conversationHistories,  \* Map sessionId -> array of {role, content}
    activeSessions,         \* Set of session ids (api-server.js)
    pc,                     \* per request: where its handler waits
    frame,                  \* per request: the locals of its handler
    response,               \* the HTTP response the step just taken has sent
    asked,                  \* number of questions accepted so far
    appended,               \* history variable: per session, every message
                            \* addMessageToHistory was called with, in call order
    userInput, messages, isThinking, sessionId, historyLength,  \* App.vue refs
    pending,                \* App.vue: the axios request in flight
    wikiDir,                \* the entries of WIKI_DIR, in readdirSync order
    ingestPc,               \* where processWikiToPinecone waits
    allDocuments,           \* the array processWikiFiles returned (documents)
    batchIndex,             \* processWikiToPinecone: the loop variable i
    stored,                 \* the batches the Pinecone index has taken, in order
    calls,                  \* the requests the ingestion has sent, in order
    errors                  \* what the ingestion passed to console.error, in order

serverVars == <<conversationHistories, activeSessions, pc, frame, response, asked, appended>>
uiVars == <<userInput, messages, isThinking, sessionId, historyLength, pending>>
ingestVars == <<wikiDir, ingestPc, allDocuments, batchIndex, stored, calls, errors>>
vars == <<conversationHistories, activeSessions, pc, frame, response, asked, appended,
          userInput, messages, isThinking, sessionId, historyLength, pending,
          wikiDir, ingestPc, allDocuments, batchIndex, stored, calls, errors>>

(* ---------------------------------------------------------------------- *)
(* JavaScript values                                                       *)
(* ---------------------------------------------------------------------- *)

\* a value that `!v` and `v || w` treat as absent
Falsy(v) == v \in {Undefined, ""}

\* v || w
OrElse(v, w) == IF Falsy(v) THEN w ELSE v

RECURSIVE Join(_, _)
\* Array.prototype.join on an array of token sequences
Join(parts, sep) ==
    IF Len(parts) = 0 THEN <<>>
    ELSE IF Len(parts) = 1 THEN Head(parts)
    ELSE Head(parts) \o <<sep>> \o Join(Tail(parts), sep)

(* ---------------------------------------------------------------------- *)
(* Conversation history                                                    *)
(* ---------------------------------------------------------------------- *)

\* the map after getOrCreateConversationHistory(id)
getOrCreateConversationHistory(hists, id) ==
    IF id \in DOMAIN hists THEN hists ELSE hists @@ (id :> <<>>)

\* addMessageToHistory without the limit
addMessageToHistoryUnlimited(hists, id, role, content) ==
    LET h == getOrCreateConversationHistory(hists, id)
    IN  [h EXCEPT ![id] = Append(h[id], [role |-> role, content |-> content])]

\* addMessageToHistory pushing onto one array shared by all sessions
addMessageToHistoryEverywhere(hists, id, role, content) ==
    LET h == getOrCreateConversationHistory(hists, id)
        pushed(history) == Append(history, [role |-> role, content |-> content])
    IN  [s \in DOMAIN h |->
            IF Len(pushed(h[s])) > HistoryLimit THEN Tail(pushed(h[s])) ELSE pushed(h[s])]

\* addMessageToHistory shifting as soon as the array reaches the limit
addMessageToHistoryOffByOne(hists, id, role, content) ==
    LET h == getOrCreateConversationHistory(hists, id)
        pushed == Append(h[id], [role |-> role, content |-> content])
    IN  [h EXCEPT ![id] = IF Len(pushed) >= HistoryLimit THEN Tail(pushed) ELSE pushed]

\* addMessageToHistory dropping the newest message instead of the oldest (pop)
addMessageToHistoryPops(hists, id, role, content) ==
    LET h == getOrCreateConversationHistory(hists, id)
        pushed == Append(h[id], [role |-> role, content |-> content])
    IN  [h EXCEPT ![id] = IF Len(pushed) > HistoryLimit
                          THEN SubSeq(pushed, 1, Len(pushed) - 1) ELSE pushed]

\* the map after addMessageToHistory(id, role, content)
addMessageToHistory(hists, id, role, content) ==
    LET h == getOrCreateConversationHistory(hists, id)
        pushed == Append(h[id], [role |-> role, content |-> content])
    IN  [h EXCEPT ![id] = IF Len(pushed) > HistoryLimit THEN Tail(pushed) ELSE pushed]

\* the history variable after one call addMessageToHistory(id, role, content)
logged(log, id, role, content) ==
    [log EXCEPT ![id] = Append(@, [role |-> role, content |-> content])]

\* the messages stored for a session; none when the map has no entry for it
storedFor(hists, id) == IF id \in DOMAIN hists THEN hists[id] ELSE <<>>

\* formatConversationHistory with the two labels exchanged
formatConversationHistorySwapped(history) ==
    IF Len(history) = 0 THEN <<NoPreviousConversation>>
    ELSE Join([i \in 1..Len(history) |->
                 << IF history[i].role = "human" THEN "Assistant" ELSE "User",
                    ": ", history[i].content >>],
              "\n\n")

formatConversationHistory(history) ==
    IF Len(history) = 0 THEN <<NoPreviousConversation>>
    ELSE Join([i \in 1..Len(history) |->
                 << IF history[i].role = "human" THEN "User" ELSE "Assistant",
                    ": ", history[i].content >>],
              "\n\n")

(* ---------------------------------------------------------------------- *)
(* Retrieval                                                               *)
(* ---------------------------------------------------------------------- *)

\* resultsWithScores.map(([doc, score]) => ({...doc, metadata: {...doc.metadata, score}}))
annotate(resultsWithScores) ==
    [i \in 1..Len(resultsWithScores) |->
        [metadata |-> [source |-> resultsWithScores[i][1].metadata.source,
                       title |-> resultsWithScores[i][1].metadata.title,
                       score |-> resultsWithScores[i][2]],
         pageContent |-> resultsWithScores[i][1].pageContent]]

RECURSIVE insertByScore(_, _)
\* d placed after every document whose score is not greater (Array.prototype.sort is stable)
insertByScore(sorted, d) ==
    IF Len(sorted) = 0 THEN <<d>>
    ELSE IF Head(sorted).metadata.score - d.metadata.score <= 0
         THEN <<Head(sorted)>> \o insertByScore(Tail(sorted), d)
         ELSE <<d>> \o sorted

RECURSIVE sortByScore(_)
\* processedDocs.sort((a, b) => a.metadata.score - b.metadata.score)
sortByScore(docs) ==
    IF Len(docs) = 0 THEN <<>>
    ELSE insertByScore(sortByScore(SubSeq(docs, 1, Len(docs) - 1)), docs[Len(docs)])

\* doc.metadata.source || doc.metadata.title || "Unknown"
sourceOf(doc) == OrElse(OrElse(doc.metadata.source, doc.metadata.title), "Unknown")

RECURSIVE unique(_)
\* [...new Set(list)]
unique(list) ==
    IF Len(list) = 0 THEN <<>>
    ELSE LET rest == unique(SubSeq(list, 1, Len(list) - 1))
             last == list[Len(list)]
         IN  IF \E i \in 1..Len(rest) : rest[i] = last THEN rest ELSE Append(rest, last)

\* the sources with duplicates removed
sourcesOfUnique(docs) == unique([i \in 1..Len(docs) |-> sourceOf(docs[i])])

\* processedDocs.map(sourceOf)
sourcesOf(docs) == [i \in 1..Len(docs) |-> sourceOf(docs[i])]

\* hybridSearch keeping one document per source
hybridSearchDeduplicated(resultsWithScores) ==
    LET processedDocs == sortByScore(annotate(resultsWithScores))
        kept == {i \in 1..Len(processedDocs) :
                    \A j \in 1..(i - 1) : sourceOf(processedDocs[j]) # sourceOf(processedDocs[i])}
        documents == IF Cardinality(kept) = Len(processedDocs) THEN processedDocs
                     ELSE SubSeq(processedDocs, 1, Cardinality(kept))
    IN  [documents |-> documents, sources |-> sourcesOf(documents)]

\* the value hybridSearch returns for the store's answer
hybridSearch(resultsWithScores) ==
    LET processedDocs == sortByScore(annotate(resultsWithScores))
    IN  [documents |-> processedDocs, sources |-> sourcesOf(processedDocs)]

\* the request hybridSearch sends to the vector store
searchCall(query, k) == [op |-> "similaritySearchWithScore", query |-> query, k |-> k]

\* score.toFixed(4)
toFixed4(score) == ToString(score) \o ".0000"

formatDocumentsWithSourcesAsString(searchResults) ==
    LET documents == searchResults.documents
        one(index) ==
            LET document == documents[index]
                source == OrElse(document.metadata.source, "Unknown")
                title == OrElse(document.metadata.title, source)
                relevance == IF document.metadata.score # 0
                             THEN "Relevance: " \o toFixed4(document.metadata.score)
                             ELSE ""
            IN  << "[", "Document " \o ToString(index), " | Source: ", source,
                   " | Title: ", title, " | ", relevance, "]", "\n",
                   document.pageContent >>
    IN  Join([i \in 1..Len(documents) |-> one(i)], "\n\n")

extractSources(searchResults) == searchResults.sources

(* ---------------------------------------------------------------------- *)
(* The chain, answerQuestionWithSources and askQuestion                    *)
(* ---------------------------------------------------------------------- *)

NoSearchResults == [documents |-> <<>>, sources |-> <<>>]
NoMessages == [question |-> Undefined, context |-> <<>>, conversationHistory |-> <<>>]

\* the locals of a handler that is not running
IdleFrame ==
    [sessionId |-> Undefined, question |-> Undefined, steps |-> <<>>, searches |-> <<>>,
     resultsWithScores |-> <<>>, searchResults |-> NoSearchResults, messages |-> NoMessages]

NoResponse == [code |-> 0, body |-> [status |-> Undefined],
               failed |-> FALSE, frame |-> IdleFrame]

\* what `await chain(question, sessionId)` gives: a value or an exception
returned(answer, sources) == [threw |-> FALSE, answer |-> answer, sources |-> sources]
thrown == [threw |-> TRUE, answer |-> Undefined, sources |-> <<>>]

\* answerQuestionWithSources letting the exception through
answerQuestionWithSourcesRethrows(outcome) == outcome

\* try { return await chain(...) } catch { return the apology }
answerQuestionWithSources(outcome) ==
    IF outcome.threw THEN returned(ApologyAnswer, <<>>) ELSE outcome

\* the object askQuestion returns; hists is the map after its own lookup
askQuestion(outcome, question, id, hists) ==
    LET result == answerQuestionWithSources(outcome)
    IN  IF ~result.threw
        THEN [status |-> "success", sessionId |-> id, question |-> question,
              answer |-> result.answer, sources |-> result.sources,
              historyLength |-> Len(hists[id])]
        ELSE [status |-> "error", sessionId |-> id, question |-> question,
              error |-> AskFailedError]

\* Respond taking the length from the history as it was before the chain ran
RespondStaleLength(r, hists, outcome, fr) ==
    LET after == getOrCreateConversationHistory(hists, fr.sessionId)
        before == getOrCreateConversationHistory(conversationHistories, fr.sessionId)
    IN  /\ conversationHistories' = after
        /\ response' = [code |-> 200,
                        body |-> askQuestion(outcome, fr.question, fr.sessionId, before),
                        failed |-> outcome.threw, frame |-> fr]
        /\ pc' = [pc EXCEPT ![r] = "idle"]
        /\ frame' = [frame EXCEPT ![r] = IdleFrame]

\* the rest of the /ask handler once the chain has ended: askQuestion looks the
\* history up, builds the object and res.json sends it
Respond(r, hists, outcome, fr) ==
    LET after == getOrCreateConversationHistory(hists, fr.sessionId)
    IN  /\ conversationHistories' = after
        /\ response' = [code |-> 200,
                            body |-> askQuestion(outcome, fr.question, fr.sessionId, after),
                            failed |-> outcome.threw, frame |-> fr]
        /\ pc' = [pc EXCEPT ![r] = "idle"]
        /\ frame' = [frame EXCEPT ![r] = IdleFrame]

\* the slot a new request takes, and the number of requests in progress
firstIdle ==
    IF \E i \in 1..Len(ReqOrder) : pc[ReqOrder[i]] = "idle"
    THEN ReqOrder[CHOOSE i \in 1..Len(ReqOrder) :
                     /\ pc[ReqOrder[i]] = "idle"
                     /\ \A j \in 1..(i - 1) : pc[ReqOrder[j]] # "idle"]
    ELSE Undefined

\* POST /ask tracking the session before it validates the question
PostAskTracksFirst(r, body, generated, createOk) ==
    LET question == body.question
        id == IF body.sessionId = Undefined THEN generated ELSE body.sessionId
        fr == [IdleFrame EXCEPT !.sessionId = id, !.question = question,
                                !.steps = <<"create">>]
    IN  /\ r = firstIdle
        /\ activeSessions' = activeSessions \cup {id}
        /\ \/ /\ Falsy(question)
              /\ response' = [code |-> 400,
                              body |-> [status |-> "error", error |-> QuestionRequired],
                              failed |-> FALSE,
                              frame |-> [IdleFrame EXCEPT !.sessionId = id,
                                                          !.question = question]]
              /\ UNCHANGED <<conversationHistories, pc, frame, asked>>
           \/ /\ ~Falsy(question)
              /\ asked < MaxAsked
              /\ asked' = asked + 1
              /\ IF createOk
                 THEN /\ conversationHistories' =
                            getOrCreateConversationHistory(conversationHistories, id)
                      /\ frame' = [frame EXCEPT ![r] =
                            [fr EXCEPT !.steps = <<"create", "search">>,
                                       !.searches = <<searchCall(question, DefaultK)>>]]
                      /\ pc' = [pc EXCEPT ![r] = "searching"]
                      /\ response' = NoResponse
                 ELSE Respond(r, conversationHistories, thrown, fr)
        /\ UNCHANGED <<appended, uiVars, ingestVars>>

\* POST /ask up to the first wait: validation, session tracking, chain creation
\* and the search request
PostAsk(r, body, generated, createOk) ==
    LET question == body.question
        id == IF body.sessionId = Undefined THEN generated ELSE body.sessionId
        fr == [IdleFrame EXCEPT !.sessionId = id, !.question = question,
                                !.steps = <<"create">>]
    IN  /\ r = firstIdle
        /\ \/ /\ Falsy(question)
              /\ response' = [code |-> 400,
                                  body |-> [status |-> "error", error |-> QuestionRequired],
                                  failed |-> FALSE,
                                  frame |-> [IdleFrame EXCEPT !.sessionId = id,
                                                              !.question = question]]
              /\ UNCHANGED <<conversationHistories, activeSessions, pc, frame, asked>>
           \/ /\ ~Falsy(question)
              /\ asked < MaxAsked
              /\ asked' = asked + 1
              /\ activeSessions' = activeSessions \cup {id}
              /\ IF createOk
                 THEN /\ conversationHistories' =
                            getOrCreateConversationHistory(conversationHistories, id)
                      /\ frame' = [frame EXCEPT ![r] =
                            [fr EXCEPT !.steps = <<"create", "search">>,
                                       !.searches = <<searchCall(question, DefaultK)>>]]
                      /\ pc' = [pc EXCEPT ![r] = "searching"]
                      /\ response' = NoResponse
                 ELSE Respond(r, conversationHistories, thrown, fr)
        /\ UNCHANGED <<appended, uiVars, ingestVars>>

\* SearchReturns recording the question before the generation is requested
SearchReturnsTracksEarly(r, resultsWithScores, promptOk) ==
    LET fr == frame[r]
        searchResults == hybridSearch(resultsWithScores)
        built == [fr EXCEPT !.resultsWithScores = resultsWithScores,
                            !.searchResults = searchResults,
                            !.messages = [question |-> fr.question,
                                          context |-> formatDocumentsWithSourcesAsString(searchResults),
                                          conversationHistory |->
                                              formatConversationHistory(conversationHistories[fr.sessionId])],
                            !.steps = fr.steps \o <<"format", "sources", "history", "prompt">>]
    IN  /\ pc[r] = "searching"
        /\ IF promptOk
           THEN /\ frame' = [frame EXCEPT ![r] =
                                [built EXCEPT !.steps = built.steps \o <<"generate">>]]
                /\ pc' = [pc EXCEPT ![r] = "generating"]
                /\ response' = NoResponse
                /\ conversationHistories' =
                      addMessageToHistory(conversationHistories, fr.sessionId, "human", fr.question)
                /\ appended' = logged(appended, fr.sessionId, "human", fr.question)
           ELSE /\ Respond(r, conversationHistories, thrown, built)
                /\ UNCHANGED appended
        /\ UNCHANGED <<activeSessions, asked>>
        /\ UNCHANGED <<uiVars, ingestVars>>

\* the vector store answers: documents processed, context and history formatted,
\* prompt built, generation requested
SearchReturns(r, resultsWithScores, promptOk) ==
    LET fr == frame[r]
        searchResults == hybridSearch(resultsWithScores)
        formattedContext == formatDocumentsWithSourcesAsString(searchResults)
        formattedHistory == formatConversationHistory(conversationHistories[fr.sessionId])
        built == [fr EXCEPT !.resultsWithScores = resultsWithScores,
                            !.searchResults = searchResults,
                            !.messages = [question |-> fr.question,
                                          context |-> formattedContext,
                                          conversationHistory |-> formattedHistory],
                            !.steps = fr.steps \o <<"format", "sources", "history", "prompt">>]
    IN  /\ pc[r] = "searching"
        /\ IF promptOk
           THEN /\ frame' = [frame EXCEPT ![r] =
                                [built EXCEPT !.steps = built.steps \o <<"generate">>]]
                /\ pc' = [pc EXCEPT ![r] = "generating"]
                /\ response' = NoResponse
                /\ UNCHANGED conversationHistories
           ELSE Respond(r, conversationHistories, thrown, built)
        /\ UNCHANGED <<activeSessions, asked, appended>>
        /\ UNCHANGED <<uiVars, ingestVars>>

\* similaritySearchWithScore rejects
SearchThrows(r) ==
    /\ pc[r] = "searching"
    /\ Respond(r, conversationHistories, thrown, frame[r])
    /\ UNCHANGED <<activeSessions, asked, appended>>
    /\ UNCHANGED <<uiVars, ingestVars>>

\* GenerateReturns recording the exchange in front of the history (unshift)
GenerateReturnsPrepends(r, content) ==
    LET fr == frame[r]
        h == getOrCreateConversationHistory(conversationHistories, fr.sessionId)
        exchange == << [role |-> "human", content |-> fr.question],
                       [role |-> "assistant", content |-> content] >>
        all == exchange \o h[fr.sessionId]
        withAnswer == [h EXCEPT ![fr.sessionId] =
                          SubSeq(all, 1, IF Len(all) > HistoryLimit THEN HistoryLimit ELSE Len(all))]
    IN  /\ pc[r] = "generating"
        /\ Respond(r, withAnswer, returned(content, extractSources(fr.searchResults)),
                   [fr EXCEPT !.steps = fr.steps \o <<"track">>])
        /\ appended' = logged(logged(appended, fr.sessionId, "human", fr.question),
                              fr.sessionId, "assistant", content)
        /\ UNCHANGED <<activeSessions, asked>>
        /\ UNCHANGED <<uiVars, ingestVars>>

\* the model answers: the exchange is recorded and the response sent
GenerateReturns(r, content) ==
    LET fr == frame[r]
        withQuestion == addMessageToHistory(conversationHistories, fr.sessionId,
                                            "human", fr.question)
        withAnswer == addMessageToHistory(withQuestion, fr.sessionId, "assistant", content)
    IN  /\ pc[r] = "generating"
        /\ Respond(r, withAnswer, returned(content, extractSources(fr.searchResults)),
                   [fr EXCEPT !.steps = fr.steps \o <<"track">>])
        /\ appended' = logged(logged(appended, fr.sessionId, "human", fr.question),
                              fr.sessionId, "assistant", content)
        /\ UNCHANGED <<activeSessions, asked>>
        /\ UNCHANGED <<uiVars, ingestVars>>

\* chatModel.invoke rejects after the question has been recorded
GenerateThrowsKeepsQuestion(r) ==
    /\ pc[r] = "generating"
    /\ Respond(r, addMessageToHistory(conversationHistories, frame[r].sessionId,
                                      "human", frame[r].question),
               thrown, frame[r])
    /\ appended' = logged(appended, frame[r].sessionId, "human", frame[r].question)
    /\ UNCHANGED <<activeSessions, asked>>
    /\ UNCHANGED <<uiVars, ingestVars>>

\* chatModel.invoke rejects
GenerateThrows(r) ==
    /\ pc[r] = "generating"
    /\ Respond(r, conversationHistories, thrown, frame[r])
    /\ UNCHANGED <<activeSessions, asked, appended>>
    /\ UNCHANGED <<uiVars, ingestVars>>

(* ---------------------------------------------------------------------- *)
(* The chat window (App.vue); a text is a sequence of characters           *)
(* ---------------------------------------------------------------------- *)

Greeting == <<"H", "i">>
ApiErrorText == <<"S", "o", "r", "r", "y">>
NoRequest == [question |-> <<>>, sessionId |-> Undefined]

\* what the user may type
Inputs == { <<>>, <<" ">>, <<"q">>, <<" ", "q", " ">> }

\* what a 2xx response may carry as response.data
ResponseData ==
    { [answer |-> <<"a">>, sources |-> <<"a.md">>, historyLength |-> 2],
      [answer |-> <<"e">>, sources |-> <<>>, historyLength |-> 0] }

RECURSIVE trimStart(_)
trimStart(text) ==
    IF Len(text) > 0 /\ Head(text) = " " THEN trimStart(Tail(text)) ELSE text

RECURSIVE trimEnd(_)
trimEnd(text) ==
    IF Len(text) > 0 /\ text[Len(text)] = " "
    THEN trimEnd(SubSeq(text, 1, Len(text) - 1)) ELSE text

\* String.prototype.trim
trim(text) == trimEnd(trimStart(text))

initialMessages == << [role |-> "bot", content |-> Greeting, sources |-> <<>>] >>

\* v-model on the input, which is disabled while thinking
TypeInput(text) ==
    /\ ~isThinking
    /\ userInput' = text
    /\ UNCHANGED <<messages, isThinking, sessionId, historyLength, pending>>
    /\ UNCHANGED <<serverVars, ingestVars>>

\* sendMessage up to the await of axios.post
sendMessage ==
    LET userMessage == trim(userInput)
    IN  /\ ~(Len(trim(userInput)) = 0 \/ isThinking)
        /\ Len(messages) + 2 <= MaxMessages
        /\ messages' = Append(messages,
                              [role |-> "user", content |-> userMessage, sources |-> <<>>])
        /\ userInput' = <<>>
        /\ isThinking' = TRUE
        /\ pending' = [question |-> userMessage, sessionId |-> sessionId]
        /\ UNCHANGED <<sessionId, historyLength>>
        /\ UNCHANGED <<serverVars, ingestVars>>

\* sendMessage after axios.post resolved: try body, then finally
RequestResolves(data) ==
    /\ pending # NoRequest
    /\ historyLength' = IF data.historyLength # 0
                        THEN data.historyLength ELSE historyLength
    /\ messages' = Append(messages,
                          [role |-> "bot", content |-> data.answer, sources |-> data.sources])
    /\ isThinking' = FALSE
    /\ pending' = NoRequest
    /\ UNCHANGED <<userInput, sessionId>>
    /\ UNCHANGED <<serverVars, ingestVars>>

\* RequestRejects without the finally block
RequestRejectsKeepsThinking ==
    /\ pending # NoRequest
    /\ messages' = Append(messages,
                          [role |-> "bot", content |-> ApiErrorText, sources |-> <<>>])
    /\ pending' = NoRequest
    /\ UNCHANGED <<userInput, isThinking, sessionId, historyLength>>
    /\ UNCHANGED <<serverVars, ingestVars>>

\* sendMessage after axios.post rejected: catch, then finally
RequestRejects ==
    /\ pending # NoRequest
    /\ messages' = Append(messages,
                          [role |-> "bot", content |-> ApiErrorText, sources |-> <<>>])
    /\ isThinking' = FALSE
    /\ pending' = NoRequest
    /\ UNCHANGED <<userInput, sessionId, historyLength>>
    /\ UNCHANGED <<serverVars, ingestVars>>

\* the New Chat button, with the id generateSessionId() made
resetConversation(generated) ==
    /\ sessionId' = generated
    /\ messages' = initialMessages
    /\ historyLength' = 0
    /\ UNCHANGED <<userInput, isThinking, pending>>
    /\ UNCHANGED <<serverVars, ingestVars>>

Bodies == [question : Questions \cup {Undefined, ""}, sessionId : Sessions \cup {Undefined}]

ServerInit ==
    /\ conversationHistories = <<>>
    /\ activeSessions = {}
    /\ pc = [r \in Reqs |-> "idle"]
    /\ frame = [r \in Reqs |-> IdleFrame]
    /\ response = NoResponse
    /\ asked = 0
    /\ appended = [id \in Sessions |-> <<>>]

UiInit ==
    /\ userInput = <<>>
    /\ messages = initialMessages
    /\ isThinking = FALSE
    /\ sessionId = "s1"
    /\ historyLength = 0
    /\ pending = NoRequest

\* the ingestion script before it is run
IngestIdle ==
    /\ wikiDir = <<>>
    /\ ingestPc = "start"
    /\ allDocuments = <<>>
    /\ batchIndex = 0
    /\ stored = <<>>
    /\ calls = <<>>
    /\ errors = <<>>

Init == ServerInit /\ UiInit /\ IngestIdle

Next ==
    \/ \E r \in Reqs, body \in Bodies :
          \E generated \in (IF body.sessionId = Undefined THEN Sessions ELSE {Undefined}),
             createOk \in (IF Falsy(body.question) THEN {TRUE} ELSE BOOLEAN) :
             PostAsk(r, body, generated, createOk)
    \/ \E r \in Reqs, res \in StoreResults, promptOk \in BOOLEAN : SearchReturns(r, res, promptOk)
    \/ \E r \in Reqs : SearchThrows(r)
    \/ \E r \in Reqs, content \in Answers : GenerateReturns(r, content)
    \/ \E r \in Reqs : GenerateThrows(r)

Spec == Init /\ [][Next]_vars

RequestSettles == (\E data \in ResponseData : RequestResolves(data)) \/ RequestRejects

UiNext ==
    \/ \E text \in Inputs : TypeInput(text)
    \/ sendMessage
    \/ \E data \in ResponseData : RequestResolves(data)
    \/ RequestRejects
    \/ \E generated \in Sessions : resetConversation(generated)

\* the chat window alone; a request that was sent is eventually settled
UiSpec == Init /\ [][UiNext]_vars /\ WF_vars(RequestSettles)

(* ---------------------------------------------------------------------- *)
(* addMessageToHistory on its own                                          *)
(* ---------------------------------------------------------------------- *)

Roles == {"human", "assistant"}

\* one call addMessageToHistory(id, role, content), with any role at any time
AddMessage(id, role, content) ==
    /\ Len(appended["s1"]) + Len(appended["s2"]) < MaxAppended
    /\ conversationHistories' = addMessageToHistory(conversationHistories, id, role, content)
    /\ appended' = logged(appended, id, role, content)
    /\ UNCHANGED <<activeSessions, pc, frame, response, asked>>
    /\ UNCHANGED <<uiVars, ingestVars>>

HistoryNext == \E id \in Sessions, role \in Roles, content \in Questions :
                  AddMessage(id, role, content)

HistorySpec == Init /\ [][HistoryNext]_vars

(* ---------------------------------------------------------------------- *)
(* Wiki ingestion (unnamed/part_004): processWikiFiles                     *)
(*                                                                         *)
(* An entry of WIKI_DIR is described by what the file system and the two   *)
(* splitters do with it; its name is made from its position, since         *)
(* readdirSync lists every name once.  Of the metadata of a chunk the      *)
(* fields source, title, chunk, totalChunks and chunkMethod are kept.      *)
(* ---------------------------------------------------------------------- *)

\* what splitText gives for a content: an array of n texts, or an exception
Splits(n) == [threw |-> FALSE, chunks |-> n]
SplitThrows == [threw |-> TRUE, chunks |-> 0]

\* the numbers of chunks a splitter may cut a file into
ChunkCounts == {0, 1, 100, 101}

DirEntry == [kind |-> "directory", readOk |-> TRUE, token |-> Splits(0), char |-> Splits(0)]
MissingEntry == [kind |-> "missing", readOk |-> FALSE, token |-> Splits(0), char |-> Splits(0)]
UnreadableEntry == [kind |-> "file", readOk |-> FALSE, token |-> Splits(0), char |-> Splits(0)]
UnsplittableEntry == [kind |-> "file", readOk |-> TRUE, token |-> SplitThrows, char |-> SplitThrows]
FallbackEntry == [kind |-> "file", readOk |-> TRUE, token |-> SplitThrows, char |-> Splits(2)]

\* a directory, a name statSync throws on, a file readFileSync throws on, a file
\* both splitters throw on, a file only the token splitter throws on, and files
\* the token splitter cuts
Entries ==
    {DirEntry, MissingEntry, UnreadableEntry, UnsplittableEntry, FallbackEntry}
       \cup {[kind |-> "file", readOk |-> TRUE, token |-> Splits(n), char |-> Splits(n)] :
                 n \in ChunkCounts}

\* the name readdirSync gives for the k-th entry, and path.basename(name, extname)
fileName(k) == <<"f", k, ".md">>
basename(name) == SubSeq(name, 1, Len(name) - 1)

\* the array splitText resolves to
textChunks(n) == [j \in 1..n |-> <<"text", j>>]

FileError == "Error processing file"
WikiFilesError == "Error processing wiki files:"
ProcessError == "Error in Wiki to Pinecone process:"

\* textChunks.map numbering the chunks by the array index itself
toDocumentsZeroBased(filename, chunks, method) ==
    [j \in 1..Len(chunks) |->
        [pageContent |-> chunks[j],
         metadata |-> [source |-> filename, title |-> basename(filename),
                       chunk |-> j - 1, totalChunks |-> Len(chunks),
                       chunkMethod |-> method]]]

\* textChunks.map((chunk, i) => new Document(...)); i is the array index j - 1
toDocuments(filename, chunks, method) ==
    [j \in 1..Len(chunks) |->
        [pageContent |-> chunks[j],
         metadata |-> [source |-> filename, title |-> basename(filename),
                       chunk |-> (j - 1) + 1, totalChunks |-> Len(chunks),
                       chunkMethod |-> method]]]

\* the body of the per-file try: the documents pushed and the errors logged
processFile(entry, filename) ==
    IF ~entry.readOk
    THEN [documents |-> <<>>, errors |-> << [message |-> FileError, file |-> filename] >>]
    ELSE IF ~entry.token.threw
    THEN [documents |-> toDocuments(filename, textChunks(entry.token.chunks), "token"),
          errors |-> <<>>]
    ELSE IF ~entry.char.threw
    THEN [documents |-> toDocuments(filename, textChunks(entry.char.chunks), "character"),
          errors |-> <<>>]
    ELSE [documents |-> <<>>, errors |-> << [message |-> FileError, file |-> filename] >>]

\* the loop over the entries from the k-th on; statSync is outside the per-file try
RECURSIVE walk(_, _, _)
walk(dir, k, acc) ==
    IF k > Len(dir) THEN [threw |-> FALSE, documents |-> acc.documents, errors |-> acc.errors]
    ELSE IF dir[k].kind = "missing"
    THEN [threw |-> TRUE, documents |-> <<>>,
          errors |-> acc.errors \o << [message |-> WikiFilesError, file |-> <<>>] >>]
    ELSE IF dir[k].kind = "directory" THEN walk(dir, k + 1, acc)
    ELSE LET done == processFile(dir[k], fileName(k))
         IN  walk(dir, k + 1, [documents |-> acc.documents \o done.documents,
                               errors |-> acc.errors \o done.errors])

\* what await processWikiFiles() gives: the documents, or the exception rethrown
processWikiFiles(dir, readdirOk) ==
    IF ~readdirOk
    THEN [threw |-> TRUE, documents |-> <<>>,
          errors |-> << [message |-> WikiFilesError, file |-> <<>>] >>]
    ELSE walk(dir, 1, [documents |-> <<>>, errors |-> <<>>])

(* ---------------------------------------------------------------------- *)
(* Wiki ingestion: processWikiToPinecone and demonstrateQueries            *)
(*                                                                         *)
(* One action is the code between two requests to Pinecone or the          *)
(* embedding service; processWikiFiles reads the disk synchronously and    *)
(* runs as a whole in the first action.                                    *)
(* ---------------------------------------------------------------------- *)

\* a request the script sends: its operation and the number of documents it
\* carries (fromDocuments) or asks for (similaritySearch)
call(op, size) == [op |-> op, size |-> size]

\* documents.slice taking the element at index to as well
sliceInclusive(seq, from, to) ==
    SubSeq(seq, from + 1, IF to + 1 > Len(seq) THEN Len(seq) ELSE to + 1)

\* documents.slice(from, to) with 0-based bounds, to excluded
slice(seq, from, to) == SubSeq(seq, from + 1, IF to > Len(seq) THEN Len(seq) ELSE to)

\* the number of similaritySearch requests sent so far
searchesSent == Cardinality({j \in 1..Len(calls) : calls[j].op = "similaritySearch"})

\* the catch of processWikiToPinecone: log and end
caught ==
    /\ errors' = Append(errors, [message |-> ProcessError, file |-> <<>>])
    /\ ingestPc' = "done"

\* the loop test for i, and what follows it: the next batch is sent, or the loop
\* is left and demonstrateQueries sends its first search
enterBatch(i) ==
    /\ batchIndex' = i
    /\ IF i < Len(allDocuments)
       THEN /\ calls' = Append(calls, call("fromDocuments",
                                           Len(slice(allDocuments, i, i + BATCH_SIZE))))
            /\ ingestPc' = "storing"
       ELSE /\ calls' = Append(calls, call("similaritySearch", 2))
            /\ ingestPc' = "querying"

\* processWikiToPinecone up to its first request
RunIngestion(readdirOk) ==
    LET result == processWikiFiles(wikiDir, readdirOk)
    IN  /\ ingestPc = "start"
        /\ IF result.threw
           THEN /\ errors' = errors \o result.errors
                                 \o << [message |-> ProcessError, file |-> <<>>] >>
                /\ ingestPc' = "done"
                /\ UNCHANGED <<allDocuments, calls>>
           ELSE /\ errors' = errors \o result.errors
                /\ allDocuments' = result.documents
                /\ IF Len(result.documents) = 0
                   THEN /\ ingestPc' = "done"
                        /\ UNCHANGED calls
                   ELSE /\ calls' = Append(calls, call("listIndexes", 0))
                        /\ ingestPc' = "listing"
        /\ UNCHANGED <<wikiDir, batchIndex, stored>>
        /\ UNCHANGED <<serverVars, uiVars>>

\* listIndexes resolves: the loop starts with i = 0
ListIndexesReturns ==
    /\ ingestPc = "listing"
    /\ enterBatch(0)
    /\ UNCHANGED <<wikiDir, allDocuments, stored, errors>>
    /\ UNCHANGED <<serverVars, uiVars>>

\* listIndexes rejects
ListIndexesThrows ==
    /\ ingestPc = "listing"
    /\ caught
    /\ UNCHANGED <<wikiDir, allDocuments, batchIndex, stored, calls>>
    /\ UNCHANGED <<serverVars, uiVars>>

\* fromDocuments resolves: the batch is in the index, i += BATCH_SIZE
StoreReturns ==
    /\ ingestPc = "storing"
    /\ stored' = Append(stored, slice(allDocuments, batchIndex, batchIndex + BATCH_SIZE))
    /\ enterBatch(batchIndex + BATCH_SIZE)
    /\ UNCHANGED <<wikiDir, allDocuments, errors>>
    /\ UNCHANGED <<serverVars, uiVars>>

\* fromDocuments rejects and the loop goes on with the next batch
StoreThrowsContinues ==
    /\ ingestPc = "storing"
    /\ errors' = Append(errors, [message |-> ProcessError, file |-> <<>>])
    /\ enterBatch(batchIndex + BATCH_SIZE)
    /\ UNCHANGED <<wikiDir, allDocuments, stored>>
    /\ UNCHANGED <<serverVars, uiVars>>

\* fromDocuments rejects
StoreThrows ==
    /\ ingestPc = "storing"
    /\ caught
    /\ UNCHANGED <<wikiDir, allDocuments, batchIndex, stored, calls>>
    /\ UNCHANGED <<serverVars, uiVars>>

\* a similaritySearch of demonstrateQueries resolves
QueryReturns ==
    /\ ingestPc = "querying"
    /\ IF searchesSent < 3
       THEN /\ calls' = Append(calls, call("similaritySearch", 2))
            /\ UNCHANGED ingestPc
       ELSE /\ ingestPc' = "done"
            /\ UNCHANGED calls
    /\ UNCHANGED <<wikiDir, allDocuments, batchIndex, stored, errors>>
    /\ UNCHANGED <<serverVars, uiVars>>

\* a similaritySearch rejects: the third has a catch of its own that logs no error
QueryThrows ==
    /\ ingestPc = "querying"
    /\ IF searchesSent < 3
       THEN caught
       ELSE /\ ingestPc' = "done"
            /\ UNCHANGED errors
    /\ UNCHANGED <<wikiDir, allDocuments, batchIndex, stored, calls>>
    /\ UNCHANGED <<serverVars, uiVars>>

\* the script is started on any directory of at most MaxFiles entries
IngestInit ==
    /\ ServerInit
    /\ UiInit
    /\ wikiDir \in UNION {[1..n -> Entries] : n \in 0..MaxFiles}
    /\ ingestPc = "start"
    /\ allDocuments = <<>>
    /\ batchIndex = 0
    /\ stored = <<>>
    /\ calls = <<>>
    /\ errors = <<>>

IngestNext ==
    \/ \E readdirOk \in BOOLEAN : RunIngestion(readdirOk)
    \/ ListIndexesReturns
    \/ ListIndexesThrows
    \/ StoreReturns
    \/ StoreThrows
    \/ QueryReturns
    \/ QueryThrows

IngestSpec == IngestInit /\ [][IngestNext]_vars

(* ---------------------------------------------------------------------- *)
(* Properties                                                              *)
(* ---------------------------------------------------------------------- *)

\* C1: whenever no append is in progress, every stored history holds at most 10 messages
HistoryAtMostTen ==
    \A id \in DOMAIN conversationHistories : Len(conversationHistories[id]) <= 10

\* an exchange was recorded in a history that already held 10 messages
HistoryFullAndAppended ==
    /\ response.code = 200
    /\ ~response.failed
    /\ Len(response.frame.messages.conversationHistory) = (4 * 10) - 1
    /\ Len(conversationHistories[response.frame.sessionId]) = 10

\* C2: a response whose answer is that the model does not know carries no source
NoSourceWhenUnknown ==
    (response.code = 200 /\ ~response.failed /\ response.body.answer = DontKnow)
        => response.body.sources = <<>>

\* C3: the response of an answered question holds the model's answer and, for the
\* i-th document of the prompt context, its source, else its title, else "Unknown"
SourcesFollowContext ==
    (response.code = 200 /\ ~response.failed) =>
        LET fr == response.frame
            hist == conversationHistories[fr.sessionId]
            sources == response.body.sources
            retrieved == {fr.resultsWithScores[i][1] : i \in 1..Len(fr.resultsWithScores)}
        IN  /\ response.body.answer = hist[Len(hist)].content
            /\ Len(sources) = Len(fr.resultsWithScores)
            /\ Len(fr.messages.context) = (12 * Len(sources)) - (IF Len(sources) = 0 THEN 0 ELSE 1)
            /\ \A i \in 1..Len(sources) :
                  \E doc \in retrieved :
                     /\ doc.pageContent = fr.messages.context[(12 * (i - 1)) + 11]
                     /\ sources[i] = IF doc.metadata.source \notin {Undefined, ""}
                                     THEN doc.metadata.source
                                     ELSE IF doc.metadata.title \notin {Undefined, ""}
                                          THEN doc.metadata.title
                                          ELSE "Unknown"

\* an answered question whose documents came back in another order than the context has them
AnsweredWithSources ==
    /\ response.code = 200
    /\ ~response.failed
    /\ response.body.sources = <<"B", "a.md">>

\* C4: a request runs search, format, prompt, generate, track in this order, each once,
\* and a history only grows in the step in which a generation returns
StepsInOrder ==
    /\ [](LET order == <<"create", "search", "format", "sources", "history", "prompt",
                         "generate", "track">>
              inOrder(fr) == /\ Len(fr.steps) <= Len(order)
                             /\ fr.steps = SubSeq(order, 1, Len(fr.steps))
                             /\ Len(fr.searches) = (IF Len(fr.steps) >= 2 THEN 1 ELSE 0)
          IN  /\ \A r \in Reqs : inOrder(frame[r])
              /\ inOrder(response.frame)
              /\ (response.code = 200 /\ ~response.failed) => response.frame.steps = order)
    /\ [][LET storedIn(hists, id) == IF id \in DOMAIN hists THEN hists[id] ELSE <<>>
          IN  \A id \in Sessions :
                 storedIn(conversationHistories', id) # storedIn(conversationHistories, id)
                    => \E r \in Reqs : /\ pc[r] = "generating"
                                       /\ frame[r].sessionId = id
                                       /\ frame[r].steps[Len(frame[r].steps)] = "generate"
                                       /\ pc'[r] = "idle"
                                       /\ ~response'.failed
                                       /\ response'.frame.steps =
                                             frame[r].steps \o <<"track">>]_vars

\* a question answered after both waits, its exchange recorded
AnsweredAfterGeneration ==
    /\ response.code = 200
    /\ ~response.failed
    /\ Len(response.frame.searches) = 1
    /\ Len(conversationHistories[response.frame.sessionId]) >= 2

\* C5: a question whose processing threw is answered with the apology and no source,
\* after at most one attempt at each step
FailureGivesApology ==
    response.failed =>
        /\ response.code = 200
        /\ "answer" \in DOMAIN response.body
        /\ response.body.answer = ApologyAnswer
        /\ response.body.sources = <<>>
        /\ Len(response.frame.searches) <= 1
        /\ \A i, j \in 1..Len(response.frame.steps) :
              response.frame.steps[i] = response.frame.steps[j] => i = j

\* a generation that threw
GenerationFailed ==
    /\ response.failed
    /\ response.frame.steps[Len(response.frame.steps)] = "generate"

\* C6: a question whose processing threw is reported with status "error", the fixed
\* error text and no answer, and status "success" only goes with an answered question
FailureReportedAsError ==
    /\ response.failed =>
          /\ response.body.status = "error"
          /\ "answer" \notin DOMAIN response.body
          /\ response.body.error = AskFailedError
    /\ (response.code = 200 /\ response.body.status = "success") => ~response.failed

\* C7: the history text of a prompt is the session's stored messages when the search
\* returns, in order, "User" for role human and "Assistant" otherwise, joined by blank
\* lines; with no stored message it is "No previous conversation."
PromptHoldsHistory ==
    [][LET rendered(h, text) ==
               IF Len(h) = 0 THEN text = <<"No previous conversation.">>
               ELSE /\ Len(text) = (4 * Len(h)) - 1
                    /\ \A i \in 1..Len(h) :
                          /\ text[(4 * i) - 3] =
                                (IF h[i].role = "human" THEN "User" ELSE "Assistant")
                          /\ text[(4 * i) - 2] = ": "
                          /\ text[(4 * i) - 1] = h[i].content
                          /\ i < Len(h) => text[4 * i] = "\n\n"
       IN  \A r \in Reqs :
              (pc[r] = "searching" /\ pc'[r] = "generating") =>
                  /\ frame'[r].messages.question = frame[r].question
                  /\ rendered(conversationHistories[frame[r].sessionId],
                              frame'[r].messages.conversationHistory)]_vars

\* a prompt that holds an earlier exchange, and a prompt of a session without messages
PromptWithEarlierExchange ==
    \E r, q \in Reqs :
        /\ pc[r] = "generating"
        /\ Len(frame[r].messages.conversationHistory) >= 7
        /\ pc[q] = "generating"
        /\ frame[q].messages.conversationHistory = <<"No previous conversation.">>

\* C8: a search is one similaritySearchWithScore(question, 12) request and nothing else,
\* and its documents are the documents of the answer, each with its score, none added,
\* dropped or merged
SearchIsOneSemanticQuery ==
    LET count(seq, x) == Cardinality({i \in 1..Len(seq) : seq[i] = x})
        scored(pair) == [metadata |-> [source |-> pair[1].metadata.source,
                                       title |-> pair[1].metadata.title,
                                       score |-> pair[2]],
                         pageContent |-> pair[1].pageContent]
        faithful(fr) ==
            /\ Len(fr.steps) >= 2 =>
                  fr.searches = << [op |-> "similaritySearchWithScore",
                                    query |-> fr.question, k |-> 12] >>
            /\ Len(fr.searchResults.documents) = Len(fr.resultsWithScores)
            /\ \A i \in 1..Len(fr.resultsWithScores) :
                  count(fr.searchResults.documents, scored(fr.resultsWithScores[i]))
                     = count(fr.resultsWithScores, fr.resultsWithScores[i])
    IN  /\ \A r \in Reqs : faithful(frame[r])
        /\ faithful(response.frame)

\* a search that returned the same document twice
SearchReturnedDuplicates ==
    \E r \in Reqs :
        /\ pc[r] = "generating"
        /\ Len(frame[r].resultsWithScores) = 2
        /\ frame[r].resultsWithScores[1] = frame[r].resultsWithScores[2]

\* C9: a POST /ask without question is answered 400 "Question is required" and leaves
\* the sessions, the histories and every request as they were
EmptyQuestionRejected ==
    [][(response' # NoResponse /\ response'.frame.question \in {Undefined, ""}) =>
          /\ response'.code = 400
          /\ response'.body = [status |-> "error", error |-> "Question is required"]
          /\ response'.frame.steps = <<>>
          /\ UNCHANGED <<activeSessions, conversationHistories, pc, frame>>]_vars

\* a question-less POST for a session the server has not seen
RejectedForUnknownSession ==
    /\ response.code = 400
    /\ response.frame.sessionId \notin activeSessions
    /\ response.frame.sessionId \notin DOMAIN conversationHistories
    /\ activeSessions # {}

\* C10: isThinking is true exactly while a request is in flight, and a request
\* that settles (answer or error) turns it off again
ThinkingWhileInFlight ==
    /\ [](isThinking <=> pending # NoRequest)
    /\ (isThinking ~> ~isThinking)

\* an answer and an error have both been shown, and nothing is in flight
SettledBothWays ==
    /\ ~isThinking
    /\ pending = NoRequest
    /\ \E i, j \in 1..Len(messages) :
          /\ messages[i].role = "bot" /\ messages[i].content = ApiErrorText
          /\ messages[j].role = "bot" /\ messages[j].content = <<"a">>

\* C11: a step that handles a question for one session leaves every other session's
\* entry of the map as it was, and the history text a request gets in its prompt is
\* made of the latest messages addMessageToHistory was called with for its own session
SessionsIsolated ==
    [][LET handles(a) ==
               \/ response' # NoResponse /\ response'.frame.sessionId = a
               \/ \E r \in Reqs : /\ pc'[r] # pc[r]
                                   /\ a \in {frame[r].sessionId, frame'[r].sessionId}
           untouched(b) ==
               /\ (b \in DOMAIN conversationHistories') <=> (b \in DOMAIN conversationHistories)
               /\ storedFor(conversationHistories', b) = storedFor(conversationHistories, b)
           label(role) == IF role = "human" THEN "User" ELSE "Assistant"
           ownMessages(text, log) ==
               LET k == IF text = <<"No previous conversation.">> THEN 0
                        ELSE (Len(text) + 1) \div 4
               IN  /\ k <= Len(log)
                   /\ k > 0 => Len(text) = 4 * k - 1
                   /\ \A j \in 1..k :
                         LET m == log[Len(log) - k + j]
                         IN  SubSeq(text, 4 * j - 3, 4 * j - 1) =
                                << label(m.role), ": ", m.content >>
       IN  /\ \A a \in Sessions : handles(a) =>
                 \A b \in Sessions \ {a} : untouched(b)
           /\ \A r \in Reqs : (pc[r] = "searching" /\ pc'[r] = "generating") =>
                 ownMessages(frame'[r].messages.conversationHistory,
                             appended[frame[r].sessionId])]_vars

\* a request whose prompt holds an exchange of its own session while the other
\* session has stored a different number of messages
PromptForOneOfTwoSessions ==
    \E r \in Reqs :
        /\ pc[r] = "generating"
        /\ Len(frame[r].messages.conversationHistory) > 1
        /\ \A b \in Sessions : storedFor(conversationHistories, b) # <<>>
        /\ \E b \in Sessions :
              Len(storedFor(conversationHistories, b))
                 # Len(storedFor(conversationHistories, frame[r].sessionId))

\* C12: the step that ends a failed question (chain creation, search, prompt or
\* generation threw) calls addMessageToHistory for no session and leaves the messages
\* stored for every session as they were
FailureKeepsHistories ==
    [][response'.failed =>
          /\ appended' = appended
          /\ \A id \in Sessions :
                storedFor(conversationHistories', id) = storedFor(conversationHistories, id)
          /\ \A i \in 1..Len(response'.frame.steps) : response'.frame.steps[i] # "track"]_vars

\* a question failed in a session that has exchanges stored
FailedWithHistory ==
    /\ response.failed
    /\ Len(storedFor(conversationHistories, response.frame.sessionId)) >= 4
    /\ Len(response.frame.steps) >= 2

\* C14: a step that changes a session's history appends the question and the answer
\* of one exchange next to each other at its end (dropping the oldest messages past
\* ten), and between steps every history has even length and alternates human,
\* assistant from a human message on
ExchangeAppendedWhole ==
    /\ [](\A id \in DOMAIN conversationHistories :
             LET h == conversationHistories[id]
             IN  /\ Len(h) % 2 = 0
                 /\ \A i \in 1..Len(h) :
                       h[i].role = (IF i % 2 = 1 THEN "human" ELSE "assistant"))
    /\ [][\A id \in Sessions :
             LET old == storedFor(conversationHistories, id)
                 new == storedFor(conversationHistories', id)
                 all == old \o << [role |-> "human", content |-> response'.frame.question],
                                  [role |-> "assistant", content |-> response'.body.answer] >>
             IN  new # old =>
                    /\ response'.frame.sessionId = id
                    /\ new = SubSeq(all, IF Len(all) > 10 THEN Len(all) - 9 ELSE 1, Len(all))]_vars

\* an exchange recorded by a request that was searching before the session's other
\* exchange was recorded and generating after it
RecordedAfterOverlap ==
    /\ response.code = 200
    /\ ~response.failed
    /\ response.frame.messages.conversationHistory = <<"No previous conversation.">>
    /\ Len(storedFor(conversationHistories, response.frame.sessionId)) = 4

\* C15: the history text of a request's prompt is the rendering of its session's
\* history at the step in which its search returns and stays as it is while the
\* generation runs, whatever is recorded meanwhile; and the step in which a
\* generation returns puts that request's exchange behind everything recorded
\* before, whichever request arrived first
SnapshotAtSearchRecordAtCompletion ==
    [][\A r \in Reqs :
          LET id == frame[r].sessionId
              old == storedFor(conversationHistories, id)
              new == storedFor(conversationHistories', id)
          IN  /\ (pc[r] = "searching" /\ pc'[r] = "generating") =>
                    /\ frame'[r].messages.conversationHistory = formatConversationHistory(old)
                    /\ new = old
              /\ (pc[r] = "generating" /\ pc'[r] = "generating") =>
                    frame'[r].messages = frame[r].messages
              /\ (pc[r] = "generating" /\ pc'[r] = "idle" /\ ~response'.failed) =>
                    /\ Len(new) >= 2
                    /\ new[Len(new) - 1] = [role |-> "human", content |-> frame[r].question]
                    /\ new[Len(new)] = [role |-> "assistant", content |-> response'.body.answer]
                    /\ SubSeq(new, 1, Len(new) - 2) =
                          SubSeq(old, IF Len(old) > 8 THEN Len(old) - 7 ELSE 1, Len(old))]_vars

\* the second of two questions of one session has been answered and recorded while
\* the first, whose prompt was built before, is still being generated
SecondAnsweredFirst ==
    /\ asked = 2
    /\ response.code = 200
    /\ ~response.failed
    /\ pc[ReqOrder[1]] = "generating"
    /\ frame[ReqOrder[1]].sessionId = response.frame.sessionId
    /\ frame[ReqOrder[1]].messages.conversationHistory = <<"No previous conversation.">>
    /\ Len(storedFor(conversationHistories, response.frame.sessionId)) = 2

\* C16: the historyLength of an askQuestion response is the number of messages stored
\* for its session in the state the response is sent in, and that number is
\* min(10, 2 * s), s being the number of questions of the session answered
\* successfully up to and including this response
HistoryLengthCountsStored ==
    response.code = 200 =>
        LET id == response.frame.sessionId
            s == Cardinality({i \in 1..Len(appended[id]) : appended[id][i].role = "human"})
        IN  /\ id \in DOMAIN conversationHistories
            /\ response.body.historyLength = Len(conversationHistories[id])
            /\ response.body.historyLength = (IF 2 * s > 10 THEN 10 ELSE 2 * s)

\* the sixth successful answer of a session: twelve messages appended, ten reported
SixthAnswerReportsTen ==
    /\ response.code = 200
    /\ ~response.failed
    /\ Len(appended[response.frame.sessionId]) = 12
    /\ response.body.historyLength = 10

\* C13: after n calls of addMessageToHistory for a session its history is the last
\* min(n, 10) messages of those calls, in call order
HistoryIsLastTenAppended ==
    \A id \in Sessions :
        LET n == Len(appended[id])
            kept == IF n > 10 THEN 10 ELSE n
        IN  storedFor(conversationHistories, id) = SubSeq(appended[id], n - kept + 1, n)

\* twelve appends to one session, the dropped ones differing from those that took
\* their places
TwoOldestDropped ==
    \E id \in Sessions :
        /\ Len(appended[id]) = 12
        /\ Len(storedFor(conversationHistories, id)) = 10
        /\ appended[id][1] # appended[id][3]
        /\ appended[id][2] # appended[id][4]
        /\ appended[id][11] # appended[id][12]

\* C17: the batches the index holds are consecutive runs of the chunks in their
\* order, full (100) except possibly the last, never empty; once the loop is left
\* exactly ceil(n / 100) store requests have been sent and every chunk is in its
\* batch; and with no chunk the script sends no request at all
BatchesPartitionChunks ==
    LET n == Len(allDocuments)
        storeCalls == Cardinality({j \in 1..Len(calls) : calls[j].op = "fromDocuments"})
        loopLeft == ingestPc = "querying" \/ (ingestPc = "done" /\ searchesSent > 0)
    IN  /\ \A b \in 1..Len(stored) :
              /\ Len(stored[b]) \in 1..100
              /\ b < Len(stored) => Len(stored[b]) = 100
              /\ 100 * (b - 1) + Len(stored[b]) <= n
              /\ \A j \in 1..Len(stored[b]) : stored[b][j] = allDocuments[100 * (b - 1) + j]
        /\ \A j \in 1..Len(calls) :
              calls[j].op = "fromDocuments" => calls[j].size \in 1..100
        /\ storeCalls <= (n + 99) \div 100
        /\ loopLeft =>
              /\ storeCalls = (n + 99) \div 100
              /\ Len(stored) = storeCalls
              /\ 100 * (Len(stored) - 1) + Len(stored[Len(stored)]) = n
        /\ n = 0 => calls = <<>> /\ stored = <<>>

\* 201 chunks stored in three batches, the last of one chunk
ThreeBatchesLastShort ==
    /\ ingestPc = "querying"
    /\ Len(allDocuments) = 201
    /\ Len(stored) = 3
    /\ Len(stored[3]) = 1

\* C18: a store request that fails ends the script in the same step: the batches
\* stored before stay, no request is sent afterwards, the error is logged once by
\* the catch of processWikiToPinecone, and nothing runs after the end
StoreFailureStopsIngestion ==
    [][/\ (ingestPc = "storing" /\ Len(stored') = Len(stored)) =>
             /\ ingestPc' = "done"
             /\ stored' = stored
             /\ calls' = calls
             /\ calls[Len(calls)].op = "fromDocuments"
             /\ \A j \in 1..Len(calls) : calls[j].op # "similaritySearch"
             /\ errors' = Append(errors, [message |-> "Error in Wiki to Pinecone process:",
                                          file |-> <<>>])
       /\ ingestPc = "done" => UNCHANGED <<stored, calls, errors, ingestPc>>]_vars

\* the third store request failed after two batches were stored
ThirdBatchFailed ==
    /\ ingestPc = "done"
    /\ Len(stored) = 2
    /\ Len(calls) = 4
    /\ calls[4].op = "fromDocuments"
    /\ errors # <<>>
    /\ errors[Len(errors)].message = ProcessError

\* C19 as stated: once processWikiFiles has returned, a file whose reading or
\* splitting threw has no chunk among the documents, and every other file has its
\* chunks there, in order, numbered 1..m with totalChunks = m and its name as source
SplitErrorGivesNoChunk ==
    LET returnedDocuments ==
            /\ ingestPc # "start"
            /\ \A j \in 1..Len(errors) : errors[j].message # "Error processing wiki files:"
        chunksOf(k) ==
            LET own(d) == d.metadata.source = fileName(k)
            IN  SelectSeq(allDocuments, own)
        expected(e) ==
            IF e.kind = "file" /\ e.readOk /\ ~e.token.threw THEN e.token.chunks ELSE 0
    IN  returnedDocuments =>
            \A k \in 1..Len(wikiDir) :
                /\ Len(chunksOf(k)) = expected(wikiDir[k])
                /\ \A j \in 1..Len(chunksOf(k)) :
                      /\ chunksOf(k)[j].metadata.chunk = j
                      /\ chunksOf(k)[j].metadata.totalChunks = Len(chunksOf(k))

\* C19, amended: once processWikiFiles has returned, the documents are the chunks of
\* the files in directory order; a directory, a file whose reading threw and a
\* file both splitters threw on have none, a file only the token splitter threw on
\* has the chunks of the character splitter, and each file's chunks carry its name
\* as source, the numbers 1..m in order and totalChunks = m.  When readdirSync or a
\* statSync throws, processWikiFiles throws instead and nothing is stored
FileErrorsIsolated ==
    LET threwOut == \E j \in 1..Len(errors) : errors[j].message = "Error processing wiki files:"
        chunksOf(k) ==
            LET own(d) == d.metadata.source = fileName(k)
            IN  SelectSeq(allDocuments, own)
        expected(e) ==
            IF e.kind # "file" \/ ~e.readOk THEN 0
            ELSE IF ~e.token.threw THEN e.token.chunks
            ELSE IF ~e.char.threw THEN e.char.chunks
            ELSE 0
        method(e) == IF e.token.threw THEN "character" ELSE "token"
    IN  /\ (ingestPc # "start" /\ ~threwOut) =>
              /\ \A k \in 1..Len(wikiDir) :
                    /\ Len(chunksOf(k)) = expected(wikiDir[k])
                    /\ \A j \in 1..Len(chunksOf(k)) :
                          /\ chunksOf(k)[j].metadata.chunk = j
                          /\ chunksOf(k)[j].metadata.totalChunks = Len(chunksOf(k))
                          /\ chunksOf(k)[j].metadata.chunkMethod = method(wikiDir[k])
                          /\ chunksOf(k)[j].pageContent = <<"text", j>>
              /\ \A j \in 1..Len(allDocuments) :
                    /\ \E k \in 1..Len(wikiDir) : allDocuments[j].metadata.source = fileName(k)
                    /\ j > 1 => allDocuments[j - 1].metadata.source[2]
                                    <= allDocuments[j].metadata.source[2]
        /\ (ingestPc # "start" /\ \E k \in 1..Len(wikiDir) : wikiDir[k].kind = "missing")
              => threwOut
        /\ threwOut => allDocuments = <<>> /\ calls = <<>> /\ ingestPc = "done"

\* a directory with a file whose reading threw and a file only the token splitter
\* threw on: the documents are the two chunks of the character splitter
FallbackBesideUnreadable ==
    /\ ingestPc = "listing"
    /\ \E k \in 1..Len(wikiDir) : wikiDir[k] = UnreadableEntry
    /\ \E k \in 1..Len(wikiDir) : wikiDir[k] = FallbackEntry
    /\ Len(allDocuments) = 2
    /\ allDocuments[2].metadata.chunkMethod = "character"

====
